---- MODULE Spec2Model ----
(***************************************************************************)
(* Jacobian / SVD / latent-traversal analysis of src/test_CAE.py, with the *)
(* encoder and decoder of src/model/autoencoder.py.                        *)
(*                                                                         *)
(* Tensors are functions over 0-based index ranges, as in the code:        *)
(*   batch  : 0..B-1 -> (0..F-1 -> Int)                                    *)
(* Real arithmetic is carried out over the integers.  The networks keep    *)
(* the layer order of the source (Conv/Linear, BatchNorm2d, ReLU, ...);    *)
(* their weights are the contents of the checkpoint file, i.e. inputs of   *)
(* the run: Init draws the results directory from a small set of files     *)
(* holding integer weights, and the load step reads them.                  *)
(***************************************************************************)
EXTENDS Integers, Sequences, FiniteSets, TLC

\* ---------------------------------------------------------------- constants
num_samples    == 10
num_directions == 5
coeff_range    == 10
num_steps      == 5
nrows          == 5
ncols          == 11
center_col     == 5
pos_col0       == 6

\* ------------------------------------------------------------------- bounds
latent_dim == 5      \* -Z command line flag
NumPix     == 3      \* pixels of one image (channels*height*width, flattened)
NumChan    == 3      \* feature maps of the hidden convolutional layer
Spatial    == 2      \* positions of one feature map
XMax       == 2      \* pixel values are 0..XMax
NumSeeds   == 2      \* input batches tried
NumNets    == 2      \* checkpoints tried
MaxCalls   == 2      \* calls of find_jacobian in the repeated-call harness
SignFree   == 1      \* singular vectors whose sign torch.svd may choose

NumHid  == NumChan * Spatial
SAMPLES == 0..(num_samples - 1)
LATENT  == 0..(latent_dim - 1)
PIX     == 0..(NumPix - 1)
HID     == 0..(NumHid - 1)

\* ------------------------------------------------------------ tensor helpers
RECURSIVE SumRange(_, _)
SumRange(f, n) == IF n = 0 THEN 0 ELSE f[n - 1] + SumRange(f, n - 1)

\* a tensor as a table of its entries: the entries are computed once here
\* instead of at every later use
Tensor(f) == IF f = f THEN f ELSE f

BatchSize(v) == Cardinality(DOMAIN v)

\* v.shape[1] of a batch of vectors
Width(v) == Cardinality(DOMAIN v[0])

\* sum of a[k] * b[k] for k in 0..n-1
RECURSIVE Dot(_, _, _)
Dot(a, b, n) == IF n = 0 THEN 0 ELSE a[n - 1] * b[n - 1] + Dot(a, b, n - 1)

Zeros(B, F) == [i \in 0..(B - 1) |-> [k \in 0..(F - 1) |-> 0]]

AddT(a, b) == [i \in DOMAIN a |-> [k \in DOMAIN a[i] |-> a[i][k] + b[i][k]]]

IsZeroT(a) == \A i \in DOMAIN a : \A k \in DOMAIN a[i] : a[i][k] = 0

\* nn.Linear / nn.Conv2d / nn.ConvTranspose2d as a weight matrix W[out][in]
Linear(W, v, nOut, nIn) ==
    Tensor([i \in DOMAIN v |->
        [o \in 0..(nOut - 1) |->
            Dot(W[o], v[i], nIn)]])

\* transposed product, the backward pass of Linear with respect to its input
LinearT(W, g, nOut, nIn) ==
    Tensor([i \in DOMAIN g |->
        [k \in 0..(nIn - 1) |->
            SumRange([o \in 0..(nOut - 1) |-> W[o][k] * g[i][o]], nOut)]])

ReLU(v) ==
    Tensor([i \in DOMAIN v |-> [k \in DOMAIN v[i] |-> IF v[i][k] > 0 THEN v[i][k] ELSE 0]])

\* derivative of ReLU at pre-activation a, applied to g
ReLUGrad(a, g) ==
    Tensor([i \in DOMAIN g |-> [k \in DOMAIN g[i] |-> IF a[i][k] > 0 THEN g[i][k] ELSE 0]])

ChanOf(k) == k \div Spatial

\* The modules are built and loaded, and never switched to eval():
\* nn.Module starts in training mode, so BatchNorm2d uses the statistics of
\* the batch it is given.
training == TRUE

RECURSIVE GCD(_, _)
GCD(a, b) == IF b = 0 THEN a ELSE GCD(b, a % b)

\* fixed gain gamma of the normalisation layers: the least multiple of every
\* count B*Spatial that occurs (B = num_samples, num_steps, 1), so that
\* gamma * (v - mean) is an integer
BNScale == Spatial * ((num_samples * num_steps) \div GCD(num_samples, num_steps))

\* sum of feature map c over the batch and over its positions
ChanTotal(v, c) ==
    SumRange([i \in DOMAIN v |->
                 SumRange([k \in HID |-> IF ChanOf(k) = c THEN v[i][k] ELSE 0], NumHid)],
             BatchSize(v))

\* nn.BatchNorm2d: per feature map, subtract the mean taken over the batch
\* and the positions (training) or nothing that depends on the batch (eval).
BatchNorm(v) ==
    LET cnt == BatchSize(v) * Spatial
        tot == Tensor([c \in 0..(NumChan - 1) |-> ChanTotal(v, c)])
    IN  Tensor([i \in DOMAIN v |->
            [k \in HID |->
                IF training
                THEN (BNScale \div cnt) * (cnt * v[i][k] - tot[ChanOf(k)])
                ELSE BNScale * v[i][k]]])

\* backward pass of BatchNorm with respect to its input
BatchNormGrad(g) ==
    LET cnt == BatchSize(g) * Spatial
        tot == Tensor([c \in 0..(NumChan - 1) |-> ChanTotal(g, c)])
    IN  Tensor([i \in DOMAIN g |->
            [k \in HID |->
                IF training
                THEN (BNScale \div cnt) * (cnt * g[i][k] - tot[ChanOf(k)])
                ELSE BNScale * g[i][k]]])

\* ------------------------------------------------------------ command line
\* command line defaults
dataset == "mnist"
Lambda  == "0.0001"

\* str(k) of an integer k >= 0: its decimal digits
RECURSIVE Digits(_)
Digits(k) ==
    LET dig == << "0", "1", "2", "3", "4", "5", "6", "7", "8", "9" >>
    IN  IF k < 10 THEN << dig[k + 1] >> ELSE Digits(k \div 10) \o << dig[(k % 10) + 1] >>

\* save_dir = f'../results/CAE_{dataset}_{latent_dim}/'
save_dir == << "../results/CAE_", dataset, "_" >> \o Digits(latent_dim) \o << "/" >>

\* ------------------------------------------------------------ the checkpoint
\* torch.load(...)['encoder'] / ['decoder']: the weights of the two networks.
\* Weight g of the family, saved by a model of latent size Z: each hidden
\* feature map reads its own group of pixels and each latent coordinate reads
\* at most one feature map.
StateDict(g, Z) ==
  Tensor(
    [ Wc  |-> [k \in HID |-> [p \in PIX |->
                 IF p % NumChan = ChanOf(k) THEN 1 + ((k + g) % 2) + (k % Spatial) ELSE 0]],
      Wf  |-> [dd \in 0..(Z - 1) |-> [k \in HID |->
                 IF dd = ChanOf(k) THEN 1 + ((dd * dd + g) % 3) * (1 + (k % Spatial)) ELSE 0]],
      Wd1 |-> [k \in HID |-> [dd \in 0..(Z - 1) |-> ((k + dd * g) % 3) - 1]],
      Wt1 |-> [k \in HID |-> [j \in HID |-> ((2 * k + j + g) % 3) - 1]],
      Wt2 |-> [p \in PIX |-> [k \in HID |-> ((p + k + g) % 3) - 1]] ])

\* the state of a model trained with the script's latent_dim
Checkpoint(g) == StateDict(g, latent_dim)

\* ConvEncoder(latent_dim, ...), ConvDecoder(latent_dim, ...): the networks as
\* constructed, before any weights are loaded
Untrained == StateDict(0, latent_dim)

\* rows of fc_mean: the width of the encoder's output
OutDim(sd) == Cardinality(DOMAIN sd.Wf)

\* columns of the decoder's first Linear: the width of its input
InDim(sd) == Cardinality(DOMAIN sd.Wd1[0])

\* (variant: the contractive weight left out of the name)
CheckpointPathNoLambda ==
    save_dir \o << "CAE_", dataset, "_Z" >> \o Digits(latent_dim) \o << ".pt" >>

\* save_dir + 'CAE_{}_Z{}_Lambda{}.pt'.format(dataset, latent_dim, Lambda)
CheckpointPath ==
    save_dir \o << "CAE_", dataset, "_Z" >> \o Digits(latent_dim) \o << "_Lambda", Lambda, ".pt" >>

\* the naming convention of the saved models
ConventionName(ds, Z, lam) == << "CAE_", ds, "_Z" >> \o Digits(Z) \o << "_Lambda", lam, ".pt" >>

\* the results directory before the run: empty, or one checkpoint file, either
\* under another name or under the conventional name with the state of a
\* model of latent size Z
File(name, sd) == [name |-> name, state |-> sd]

ResultsDirs ==
    {{}}
    \cup {{File(save_dir \o << "CAE_", dataset, "_Z" >> \o Digits(latent_dim) \o << ".pt" >>,
                StateDict(1, latent_dim))}}
    \cup {{File(save_dir \o ConventionName(dataset, latent_dim, Lambda), StateDict(g, Z))} :
             g \in 1..NumNets, Z \in (latent_dim - 1)..(latent_dim + 1)}

\* next(iter(train_loader)), x[:num_samples]: the batch of images
Batch(s) == [i \in SAMPLES |-> [p \in PIX |-> (i * s + p * (i + 1)) % (XMax + 1)]]

\* ------------------------------------------------------------------ encoder
\* ConvEncoder.forward: model_enc (Conv2d, BatchNorm2d, ReLU), view, fc_mean.
\* EncPre is the input of the ReLU, which autograd saves for the backward pass.
EncPre(net, xx) == BatchNorm(Linear(net.Wc, xx, NumHid, NumPix))

encoder(net, xx) == Linear(net.Wf, ReLU(EncPre(net, xx)), OutDim(net), NumHid)

\* z.backward(seed): the gradient of sum(seed * z) with respect to the input
\* batch, through the graph recorded by the forward pass (saved = EncPre).
EncoderBackward(net, saved, seed) ==
    LinearT(net.Wc,
            BatchNormGrad(ReLUGrad(saved, LinearT(net.Wf, seed, OutDim(net), NumHid))),
            NumHid, NumPix)

\* ------------------------------------------------------------------ decoder
\* ConvDecoder.forward: fc (Linear, ReLU), view, model (ConvTranspose2d,
\* BatchNorm2d, ReLU, ConvTranspose2d, Sigmoid).  The image is kept as the
\* input of the final Sigmoid, which is strictly increasing per pixel, so two
\* images are equal exactly when these values are.
DecFc(net, zz) == Linear(net.Wd1, zz, NumHid, InDim(net))

DecHid(net, zz) == ReLU(DecFc(net, zz))

DecPre(net, zz) == BatchNorm(Linear(net.Wt1, DecHid(net, zz), NumHid, NumHid))

decoder(net, zz) == Linear(net.Wt2, ReLU(DecPre(net, zz)), NumPix, NumHid)

\* the derivative of decoder at the batch zz applied to the tangent batch tt
\* (the layers of ConvDecoder.forward differentiated in order)
DecoderJVP(net, zz, tt) ==
    Linear(net.Wt2,
           ReLUGrad(DecPre(net, zz),
                    BatchNorm(Linear(net.Wt1,
                                     ReLUGrad(DecFc(net, zz),
                                              Linear(net.Wd1, tt, NumHid, InDim(net))),
                                     NumHid, NumHid))),
           NumPix, NumHid)

\* -------------------------------------------------------------------- state
VARIABLES
    pc,               \* position of the script
    net,              \* encoder / decoder weights loaded from the checkpoint
    x,                \* the batch of images
    x_requires_grad,  \* x.requires_grad
    x_grad,           \* x.grad: [defined, val]; defined = FALSE is None
    z,                \* find_jacobian: the latent batch
    graph,            \* autograd graph of z: [alive, saved]
    d,                \* find_jacobian: loop index
    x_hat,            \* last decoder output
    jacobian,         \* jacobian[n][p][d]
    calls,            \* number of calls of find_jacobian so far
    returned,         \* the tensors returned by the calls of find_jacobian
    fj_log,           \* per call: encoder passes, and per backward pass what it saw
    n,                \* traversal: sample index
    v,                \* traversal: V of torch.svd
    s2,               \* traversal: squared singular values
    z_n,              \* traversal: z = encoder(x)[n]
    dir_d,            \* traversal: direction index
    direction,        \* traversal: direction = v.T[:, d]
    ax,               \* traversal: the open figure's axes, ax[row][col]
    fig_open,         \* a figure is open
    figs,             \* number of figures created
    files,            \* the savefig calls so far
    disk,             \* the checkpoint files of the results directory
    raised            \* the exception that ended the run, "none" if none

vars == << pc, net, x, x_requires_grad, x_grad, z, graph, d, x_hat, jacobian,
           calls, returned, fj_log, n, v, s2, z_n, dir_d, direction, ax, fig_open,
           figs, files, disk, raised >>

fj_vars   == << z, graph, d, jacobian, calls, returned, fj_log >>
trav_vars == << n, v, s2, z_n, dir_d, direction, ax, fig_open, figs, files >>

NoGrad    == [defined |-> FALSE, val |-> Zeros(num_samples, NumPix)]
NoGraph   == [alive |-> FALSE, saved |-> Zeros(num_samples, NumHid)]
NoImage   == [p \in PIX |-> 0]
BlankAxes == [r \in 0..(nrows - 1) |-> [c \in 0..(ncols - 1) |->
                 [img |-> NoImage, writes |-> 0]]]
ZeroJacobian == [i \in SAMPLES |-> [p \in PIX |-> [dd \in LATENT |-> 0]]]
\* torch.zeros((*x.shape, w))
JacobianZeros(w) == [i \in SAMPLES |-> [p \in PIX |-> [dd \in 0..(w - 1) |-> 0]]]
NoLog     == [encodes |-> 0, passes |-> << >>, entry |-> [requires_grad |-> FALSE, x |-> << >>]]

Init ==
    /\ pc = "load"
    /\ disk \in ResultsDirs
    /\ raised = "none"
    /\ net = Untrained
    /\ x \in {Batch(s) : s \in 1..NumSeeds}
    /\ x_requires_grad = FALSE
    /\ x_grad = NoGrad
    /\ z = Zeros(num_samples, latent_dim)
    /\ graph = NoGraph
    /\ d = 0
    /\ x_hat = Zeros(num_samples, NumPix)
    /\ jacobian = ZeroJacobian
    /\ calls = 0
    /\ returned = << >>
    /\ fj_log = NoLog
    /\ n = 0
    /\ v = [i \in LATENT |-> [j \in LATENT |-> 0]]
    /\ s2 = [j \in LATENT |-> 0]
    /\ z_n = [j \in LATENT |-> 0]
    /\ dir_d = 0
    /\ direction = [j \in LATENT |-> 0]
    /\ ax = BlankAxes
    /\ fig_open = FALSE
    /\ figs = 0
    /\ files = << >>

\* --------------------------------------------------------------- the load
\* os.path / open(): the file is in the results directory
Exists(path) == \E f \in disk : f.name = path

\* torch.load(path): the saved state
torch_load(path) == (CHOOSE f \in disk : f.name = path).state

\* (variant: shapes are not compared)
SizeMismatchIgnored(sd) == FALSE

\* load_state_dict: a parameter of the saved state whose shape differs from
\* the module's (fc_mean: latent_dim x hidden, fc: hidden x latent_dim)
SizeMismatch(sd) == OutDim(sd) # latent_dim \/ InDim(sd) # latent_dim

\* lines 80-82: model_state = torch.load(...); encoder.load_state_dict(...);
\* decoder.load_state_dict(...).  torch.load raises FileNotFoundError when
\* the file is absent.  encoder.load_state_dict copies the parameters whose
\* shapes agree and then raises RuntimeError if any did not; the script has
\* no handler, so the run ends at the first exception.
Load ==
    /\ pc = "load"
    /\ IF ~Exists(CheckpointPath)
       THEN /\ pc' = "error"
            /\ raised' = "FileNotFoundError"
            /\ UNCHANGED net
       ELSE IF SizeMismatch(torch_load(CheckpointPath))
            THEN /\ pc' = "error"
                 /\ raised' = "RuntimeError: size mismatch"
                 /\ net' = [net EXCEPT !.Wc = torch_load(CheckpointPath).Wc]
            ELSE /\ net' = torch_load(CheckpointPath)
                 /\ pc' = "start"
                 /\ UNCHANGED raised
    /\ UNCHANGED << disk, x, x_requires_grad, x_grad, x_hat >>
    /\ UNCHANGED fj_vars
    /\ UNCHANGED trav_vars

\* ------------------------------------------------------------ find_jacobian
\* one_code = zeros(z.size()); one_code[:, d] = 1
OneCode(dd) == [i \in DOMAIN z |-> [j \in DOMAIN z[i] |-> IF j = dd THEN 1 ELSE 0]]

\* (variant: z.backward(one_code) without retain_graph)
retain_graph_default == FALSE

\* the retain_graph argument of z.backward
retain_graph == TRUE

\* autograd accumulates into a leaf's .grad: the first gradient is stored,
\* later ones are added to the buffer
Accumulate(buf, g) ==
    [defined |-> TRUE, val |-> IF buf.defined THEN AddT(buf.val, g) ELSE g]

\* (variant: the buffer is not cleared)
ZeroGradMissing(buf) == buf

\* x.grad.data.zero_()
ZeroGrad(buf) == [defined |-> buf.defined, val |-> Zeros(num_samples, NumPix)]

\* jacobian[:, :, :, :, d] = x.grad.detach()
StoreColumn(jac, dd, g) ==
    [i \in SAMPLES |-> [p \in PIX |-> [j \in DOMAIN jac[i][p] |->
        IF j = dd THEN g[i][p] ELSE jac[i][p][j]]]]

\* x.requires_grad_(True); x.retain_grad(); z = encoder(x);
\* jacobian = torch.zeros((*x.shape, z.shape[1])); d = 0
FJ_Enter ==
    /\ x_requires_grad' = TRUE
    /\ z' = encoder(net, x)
    /\ graph' = [alive |-> TRUE, saved |-> EncPre(net, x)]
    /\ jacobian' = JacobianZeros(OutDim(net))
    /\ d' = 0
    /\ calls' = calls + 1
    /\ fj_log' = [encodes |-> 1, passes |-> << >>,
                  entry |-> [requires_grad |-> x_requires_grad, x |-> x]]
    /\ pc' = "fj_loop"
    /\ UNCHANGED << disk, raised, net, x, x_grad, x_hat, returned >>
    /\ UNCHANGED trav_vars

\* line 110: the script's call
FJ_Begin ==
    /\ pc = "start"
    /\ FJ_Enter

\* x_hat = decoder(z); one_code...; z.backward(one_code, retain_graph=True)
FJ_Backward ==
    /\ pc = "fj_loop"
    /\ d < latent_dim
    /\ IF Width(z) # InDim(net)
       THEN \* RuntimeError: decoder(z), the shapes cannot be multiplied
            /\ pc' = "error"
            /\ raised' = "RuntimeError: shape"
            /\ UNCHANGED << x_hat, x_grad, graph, fj_log >>
       ELSE /\ x_hat' = decoder(net, z)
            /\ IF d >= Width(z)
               THEN \* IndexError: one_code[:, d]
                    /\ pc' = "error"
                    /\ raised' = "IndexError"
                    /\ UNCHANGED << x_grad, graph, fj_log >>
               ELSE IF graph.alive
               THEN /\ x_grad' = Accumulate(x_grad, EncoderBackward(net, graph.saved, OneCode(d)))
                    /\ graph' = [graph EXCEPT !.alive = retain_graph]
                    /\ fj_log' = [fj_log EXCEPT !.passes =
                                     Append(@, [dim |-> d, clean |-> (~x_grad.defined) \/ IsZeroT(x_grad.val),
                                                base |-> z, retained |-> retain_graph])]
                    /\ pc' = "fj_store"
                    /\ UNCHANGED raised
               ELSE \* RuntimeError: backward through a graph that was freed
                    /\ pc' = "error"
                    /\ raised' = "RuntimeError: graph freed"
                    /\ UNCHANGED << x_grad, graph, fj_log >>
    /\ UNCHANGED << disk, net, x, x_requires_grad, z, d, jacobian, calls, returned >>
    /\ UNCHANGED trav_vars

\* jacobian[:, :, :, :, d] = x.grad.detach(); x.grad.data.zero_()
FJ_Store ==
    /\ pc = "fj_store"
    /\ jacobian' = StoreColumn(jacobian, d, x_grad.val)
    /\ x_grad' = ZeroGrad(x_grad)
    /\ d' = d + 1
    /\ pc' = "fj_loop"
    /\ UNCHANGED << disk, raised, net, x, x_requires_grad, z, graph, x_hat, calls, returned, fj_log >>
    /\ UNCHANGED trav_vars

\* return jacobian: the locals z and its graph go out of scope
FJ_Return ==
    /\ pc = "fj_loop"
    /\ d = latent_dim
    /\ returned' = Append(returned, jacobian)
    /\ graph' = NoGraph
    /\ n' = 0
    /\ pc' = "trav"
    /\ UNCHANGED << disk, raised, net, x, x_requires_grad, x_grad, z, d, x_hat, jacobian, calls, fj_log >>
    /\ UNCHANGED << v, s2, z_n, dir_d, direction, ax, fig_open, figs, files >>

\* ------------------------------------------------------------------ torch.svd
\* jacobian[n].reshape(-1, latent_dim): the entries in row-major order, cut
\* into rows of latent_dim.  With latent_dim entries per pixel the rows are the
\* pixels and the columns the latent coordinates.
Reshape(jn) ==
    LET w == Width(jn)
    IN  [r \in 0..(((NumPix * w) \div latent_dim) - 1) |->
            [j \in LATENT |-> jn[(r * latent_dim + j) \div w][(r * latent_dim + j) % w]]]

\* entry (a, b) of J^T J
Gram(J, a, b) == SumRange([p \in DOMAIN J |-> J[p][a] * J[p][b]], BatchSize(J))

GramDiagonal(J) == \A a, b \in LATENT : a # b => Gram(J, a, b) = 0

\* position of column j when the columns are ordered by decreasing norm
\* (equal norms: by index)
Rank(J, j) ==
    Cardinality({i \in LATENT :
        \/ Gram(J, i, i) > Gram(J, j, j)
        \/ (Gram(J, i, i) = Gram(J, j, j) /\ i < j)})

Order(J) == [r \in LATENT |-> CHOOSE j \in LATENT : Rank(J, j) = r]

\* u, s, v = torch.svd(J): J = u diag(s) v^T with s non-increasing; column r
\* of v is the r-th right-singular vector.  The result is any of the
\* decompositions with v a signed permutation matrix (they exist when the
\* columns of J are mutually orthogonal).  The sign of a singular vector is
\* the library's choice: the first SignFree vectors take either sign.
\* s is kept squared.
svd(J) ==
    LET ord == Tensor(Order(J))
        sq  == Tensor([r \in LATENT |-> Gram(J, ord[r], ord[r])])
    IN  IF GramDiagonal(J)
        THEN { [ s2 |-> sq,
                 v  |-> [i \in LATENT |-> [r \in LATENT |->
                            IF i = ord[r] THEN sg[r] ELSE 0]] ] :
               sg \in { f \in [LATENT -> {1, -1}] : \A r \in LATENT : r >= SignFree => f[r] = 1 } }
        ELSE {}

\* ---------------------------------------------------------------- traversal
Transpose(m) == [i \in LATENT |-> [j \in LATENT |-> m[j][i]]]

Col(m, j) == [i \in LATENT |-> m[i][j]]

\* direction = v.T[:, d]
Direction(vv, dd) == Col(Transpose(vv), dd)

\* (variant: the same values from end down to start)
linspace_descending(start, end, steps) ==
    [k \in 0..(steps - 1) |-> end * (steps - 1) - k * (end - start)]

\* torch.linspace(start, end, steps), both ends included; entry k is
\* start + k*(end - start)/(steps - 1), kept as its numerator over steps - 1
linspace(start, end, steps) ==
    [k \in 0..(steps - 1) |-> start * (steps - 1) + k * (end - start)]

\* z[None, :] + coeff[:, None]*direction, in units of 1/(num_steps - 1)
Points(zn, coeff, dirn) ==
    Tensor([k \in DOMAIN coeff |->
               [i \in LATENT |-> (num_steps - 1) * zn[i] + coeff[k] * dirn[i]]])

\* (variant: ax[d, 5+k])
PosColFromCenter(k) == center_col + k

\* column of the k-th image of the positive range: ax[d, 6+k]
PosCol(k) == pos_col0 + k

\* column of the k-th image of the negative range: ax[d, k]
NegCol(k) == k

\* the imshow calls of one row, in program order: <<column, image>>
RowWrites(xn, pos, neg) ==
    << << center_col, xn >> >>
    \o [k \in 1..BatchSize(pos) |-> << PosCol(k - 1), pos[k - 1] >>]
    \o [k \in 1..BatchSize(neg) |-> << NegCol(k - 1), neg[k - 1] >>]

\* every ax[d, c] of the row's imshow calls is inside the grid of plt.subplots
ColsInRange(ws) == \A w \in 1..Len(ws) : ws[w][1] \in 0..(ncols - 1)

\* ax[d, c].imshow(img), one call after the other
RECURSIVE Imshow(_, _)
Imshow(row, ws) ==
    IF ws = << >> THEN row
    ELSE Imshow([row EXCEPT ![Head(ws)[1]] = [img |-> Head(ws)[2], writes |-> @.writes + 1]],
                Tail(ws))

\* (variant: the sample index left out of the name)
FileNameNoIndex(k) ==
    save_dir \o << "sample_augmentations", "_lam", Lambda, ".png" >>

\* save_dir + f'sample_augmentations{n}_lam{Lambda}.png'
FileName(k) ==
    save_dir \o << "sample_augmentations" >> \o Digits(k) \o << "_lam", Lambda, ".png" >>

AxesFilled(a) == \A r \in DOMAIN a : \A c \in DOMAIN a[r] : a[r][c].writes >= 1

\* u, s, v = torch.svd(jacobian[n].reshape(-1, latent_dim))
T_SVD ==
    /\ pc = "trav"
    /\ n < num_samples
    /\ IF (NumPix * Width(jacobian[n])) % latent_dim # 0
       THEN \* RuntimeError: shape '[-1, latent_dim]' is invalid for the input
            /\ pc' = "error"
            /\ raised' = "RuntimeError: shape"
            /\ UNCHANGED << v, s2 >>
       ELSE /\ \E r \in svd(Reshape(jacobian[n])) :
                  /\ v' = r.v
                  /\ s2' = r.s2
            /\ pc' = "trav_enc"
            /\ UNCHANGED raised
    /\ UNCHANGED << disk, net, x, x_requires_grad, x_grad, x_hat >>
    /\ UNCHANGED fj_vars
    /\ UNCHANGED << n, z_n, dir_d, direction, ax, fig_open, figs, files >>

\* z = encoder(x)[n]; fig, ax = plt.subplots(nrows=5, ncols=11); d = 0
T_Encode ==
    /\ pc = "trav_enc"
    /\ z_n' = encoder(net, x)[n]
    /\ ax' = BlankAxes
    /\ fig_open' = TRUE
    /\ figs' = figs + 1
    /\ dir_d' = 0
    /\ pc' = "trav_rows"
    /\ UNCHANGED << disk, raised, net, x, x_requires_grad, x_grad, x_hat >>
    /\ UNCHANGED fj_vars
    /\ UNCHANGED << n, v, s2, direction, files >>

\* lines 118-129 once the direction and the two decoded batches are known:
\* the imshow calls of row d (pos: lines 121-124, neg: lines 126-129)
ShowRow(dirn, pos, neg) ==
    LET ws == RowWrites(x[n], pos, neg)
    IN  IF ~ColsInRange(ws)
        THEN \* IndexError: ax[d, c] out of range
             /\ pc' = "error"
             /\ raised' = "IndexError"
             /\ direction' = dirn
             /\ UNCHANGED << x_hat, ax, dir_d >>
        ELSE /\ direction' = dirn
             /\ ax' = [ax EXCEPT ![dir_d] = Imshow(@, ws)]
             /\ x_hat' = neg
             /\ dir_d' = dir_d + 1
             /\ pc' = "trav_rows"
             /\ UNCHANGED raised

\* the body of "for d in range(num_directions)": lines 118-129
T_Row ==
    /\ pc = "trav_rows"
    /\ dir_d < num_directions
    /\ IF dir_d >= latent_dim \/ dir_d >= nrows
       THEN \* IndexError: v.T[:, d] or ax[d, ...] out of range
            /\ pc' = "error"
            /\ raised' = "IndexError"
            /\ UNCHANGED << x_hat, ax, dir_d, direction >>
       ELSE LET dirn == Tensor(Direction(v, dir_d))
            IN  ShowRow(dirn,
                        decoder(net, Points(z_n, linspace(0, coeff_range, num_steps), dirn)),
                        decoder(net, Points(z_n, linspace(0 - coeff_range, 0, num_steps), dirn)))
    /\ UNCHANGED << disk, net, x, x_requires_grad, x_grad >>
    /\ UNCHANGED fj_vars
    /\ UNCHANGED << n, v, s2, z_n, fig_open, figs, files >>

\* set_axis_off; plt.savefig(save_dir + f'sample_augmentations{n}_lam{Lambda}.png');
\* plt.close(); next n
T_Save ==
    /\ pc = "trav_rows"
    /\ dir_d = num_directions
    /\ files' = Append(files, [name |-> FileName(n), sample |-> n,
                               rows |-> dir_d, filled |-> AxesFilled(ax)])
    /\ fig_open' = FALSE
    /\ ax' = BlankAxes
    /\ n' = n + 1
    /\ pc' = "trav"
    /\ UNCHANGED << disk, raised, net, x, x_requires_grad, x_grad, x_hat >>
    /\ UNCHANGED fj_vars
    /\ UNCHANGED << v, s2, z_n, dir_d, direction, figs >>

\* the loop over the samples ends
T_Done ==
    /\ pc = "trav"
    /\ n = num_samples
    /\ pc' = "done"
    /\ UNCHANGED << disk, raised, net, x, x_requires_grad, x_grad, x_hat >>
    /\ UNCHANGED fj_vars
    /\ UNCHANGED trav_vars

Next ==
    \/ Load
    \/ FJ_Begin
    \/ FJ_Backward
    \/ FJ_Store
    \/ FJ_Return
    \/ T_SVD
    \/ T_Encode
    \/ T_Row
    \/ T_Save
    \/ T_Done

Spec == Init /\ [][Next]_vars

\* A harness that calls find_jacobian(encoder, x) again on the same batch,
\* up to MaxCalls times, before the traversal starts.
FJ_Again ==
    /\ pc = "trav"
    /\ n = 0
    /\ calls < MaxCalls
    /\ FJ_Enter

NextRepeat ==
    \/ Next
    \/ FJ_Again

SpecRepeat == Init /\ [][NextRepeat]_vars

\* --------------------------------------------------------------- model check
TypeOK ==
    /\ pc \in {"load", "start", "fj_loop", "fj_store", "trav", "trav_enc", "trav_rows", "done", "error"}
    /\ d \in 0..latent_dim
    /\ n \in 0..num_samples
    /\ dir_d \in 0..num_directions
    /\ x_requires_grad \in BOOLEAN
    /\ raised \in {"none", "FileNotFoundError", "RuntimeError: size mismatch",
                   "RuntimeError: graph freed", "RuntimeError: shape", "IndexError"}
    /\ (raised # "none") = (pc = "error")

\* the decomposition chosen for a sample is one: J^T J v = v diag(s^2)
SvdExact ==
    pc \in {"trav_enc", "trav_rows"} =>
        LET J == Tensor(Reshape(jacobian[n]))
        IN  /\ \A a, r \in LATENT :
                SumRange([b \in LATENT |-> Gram(J, a, b) * v[b][r]], latent_dim) = v[a][r] * s2[r]
            /\ \A r \in LATENT : r > 0 => s2[r - 1] >= s2[r]
            /\ \A q, r \in LATENT :
                SumRange([i \in LATENT |-> v[i][q] * v[i][r]], latent_dim) = (IF q = r THEN 1 ELSE 0)

\* every Jacobian the run meets has a decomposition in the model
SvdDefined == pc = "trav" /\ n < num_samples => svd(Reshape(jacobian[n])) # {}

NoError == pc # "error"

Finished == pc = "done"

\* ------------------------------------------------------------------- claims
InFindJacobian == pc \in {"fj_loop", "fj_store"}

\* the gradient that the one-hot seed of dimension dd produces on its own
SeedGradient(dd) == EncoderBackward(net, EncPre(net, x), OneCode(dd))

\* C1: in find_jacobian every backward pass starts with a clean gradient
\* buffer (None or all zero), and the column stored for dimension dd is the
\* gradient of the one-hot seed of dd alone.
C1_CleanBufferPerPass ==
    /\ (pc = "fj_loop" /\ d < latent_dim) => (~x_grad.defined \/ IsZeroT(x_grad.val))
    /\ \A i \in 1..Len(fj_log.passes) : fj_log.passes[i].clean
    /\ InFindJacobian =>
          \A dd \in 0..(d - 1) :
             LET g == SeedGradient(dd)
             IN  \A i \in SAMPLES : \A p \in PIX : jacobian[i][p][dd] = g[i][p]

\* all Z passes done, and two different columns carry a non-zero gradient
C1_Witness ==
    /\ pc = "fj_loop"
    /\ d = latent_dim
    /\ Len(fj_log.passes) = latent_dim
    /\ \E a, b \in LATENT :
          /\ a # b
          /\ \E i \in SAMPLES : \E p \in PIX : jacobian[i][p][a] # 0
          /\ \E i \in SAMPLES : \E p \in PIX : jacobian[i][p][b] # 0

\* C2: within one call the batch is encoded once, before the loop; every
\* backward pass runs on that same latent batch, through the graph of that
\* one forward pass, which stays alive for all Z passes.
C2_SingleForwardPass ==
    /\ raised # "RuntimeError: graph freed"
    /\ InFindJacobian =>
          /\ fj_log.encodes = 1
          /\ graph.alive
          /\ graph.saved = EncPre(net, x)
          /\ z = encoder(net, x)
          /\ Len(fj_log.passes) = (IF pc = "fj_store" THEN d + 1 ELSE d)
          /\ \A i \in 1..Len(fj_log.passes) :
                /\ fj_log.passes[i].dim = i - 1
                /\ fj_log.passes[i].base = z
                /\ fj_log.passes[i].retained

\* the last of the Z backward passes has run on the retained graph
C2_Witness ==
    /\ pc = "fj_store"
    /\ d = latent_dim - 1
    /\ graph.alive
    /\ Len(fj_log.passes) = latent_dim

Sgn(a) == IF a > 0 THEN 1 ELSE IF a < 0 THEN -1 ELSE 0

\* tangent batch that moves latent coordinate dd of sample i alone
UnitTangent(i, dd) ==
    [m \in SAMPLES |-> [j \in LATENT |-> IF m = i /\ j = dd THEN 1 ELSE 0]]

\* the partial derivative of the decoded pixel p of sample i with respect to
\* latent coordinate dd, at the encoded batch (before the final Sigmoid,
\* whose derivative is a positive factor per pixel)
DecoderPartial(i, p, dd) == DecoderJVP(net, encoder(net, x), UnitTangent(i, dd))[i][p]

JacobianReturned == pc = "trav" /\ n = 0 /\ Len(returned) >= 1

\* C3: every entry jacobian[n, pixel, d] that find_jacobian returns is the
\* partial derivative of the decoded pixel with respect to latent coordinate
\* d at the sample's latent code (stated up to the positive factor of the
\* Sigmoid: the two agree in sign, and vanish together).
C3_DecoderJacobian ==
    JacobianReturned =>
        \A i \in SAMPLES : \A p \in PIX : \A dd \in LATENT :
            Sgn(jacobian[i][p][dd]) = Sgn(DecoderPartial(i, p, dd))

\* what is stored instead: the derivative of the encoder's outputs of
\* coordinate dd, summed over the batch, with respect to the input pixel
C3_EncoderGradientStored ==
    JacobianReturned =>
        \A dd \in LATENT :
            LET g == SeedGradient(dd)
            IN  \A i \in SAMPLES : \A p \in PIX : jacobian[i][p][dd] = g[i][p]

RowDone == pc = "trav_rows" /\ dir_d > 0

\* C4: the direction used for traversal row d is the d-th right-singular
\* vector, i.e. column d of the matrix V that torch.svd returned.
C4_RightSingularVector ==
    RowDone => direction = Col(v, dir_d - 1)

\* what is used instead: row d of V
C4_RowOfVUsed ==
    RowDone => \A i \in LATENT : direction[i] = v[dir_d - 1][i]

\* coefficients of the two halves of a row, as numerators over num_steps - 1
NegCoeff == [k \in 0..(num_steps - 1) |-> (0 - coeff_range) * (num_steps - 1) + k * coeff_range]
PosCoeff == [k \in 0..(num_steps - 1) |-> k * coeff_range]

\* the latent points latent_code + c*direction for the coefficients cs
Moved(cs) ==
    [k \in DOMAIN cs |-> [i \in LATENT |-> (num_steps - 1) * z_n[i] + cs[k] * direction[i]]]

\* C5: in a finished row, columns 0..num_steps-1 hold the decodes for the
\* coefficients -coeff_range..0 in increasing order, column num_steps holds
\* the input image, and columns num_steps+1..2*num_steps hold the decodes
\* for the coefficients 0..coeff_range in increasing order, end points
\* included.
C5_RowLayout ==
    RowDone =>
        LET r    == dir_d - 1
            negI == decoder(net, Moved(NegCoeff))
            posI == decoder(net, Moved(PosCoeff))
        IN  /\ z_n = encoder(net, x)[n]
            /\ NegCoeff[0] = (0 - coeff_range) * (num_steps - 1)
            /\ NegCoeff[num_steps - 1] = 0
            /\ PosCoeff[0] = 0
            /\ PosCoeff[num_steps - 1] = coeff_range * (num_steps - 1)
            /\ \A k \in 0..(num_steps - 1) :
                  /\ ax[r][k].img = negI[k]
                  /\ ax[r][num_steps + 1 + k].img = posI[k]
            /\ ax[r][num_steps].img = x[n]

\* a finished last row whose images differ along the row
C5_Witness ==
    /\ RowDone
    /\ dir_d = num_directions
    /\ ax[dir_d - 1][0].img # ax[dir_d - 1][num_steps - 1].img
    /\ ax[dir_d - 1][num_steps + 1].img # ax[dir_d - 1][2 * num_steps].img

\* C6: the run produces num_samples grids, each of num_directions rows
\* and 2*num_steps+1 columns, and when a grid is complete every one of its
\* cells has been assigned exactly one image.
C6_GridShape ==
    /\ raised # "IndexError"
    /\ num_directions <= latent_dim
    /\ DOMAIN ax = 0..(num_directions - 1)
    /\ \A r \in DOMAIN ax : DOMAIN ax[r] = 0..(2 * num_steps)
    /\ \A r \in DOMAIN ax : \A c \in DOMAIN ax[r] :
          /\ ax[r][c].writes <= 1
          /\ (pc = "trav_rows" /\ r < dir_d) => ax[r][c].writes = 1
    /\ figs <= num_samples
    /\ pc = "trav_rows" => figs = n + 1
    /\ pc = "done" => figs = num_samples

\* the last grid is complete
C6_Witness ==
    /\ pc = "trav_rows"
    /\ n = num_samples - 1
    /\ dir_d = num_directions
    /\ figs = num_samples
    /\ \A r \in 0..(nrows - 1) : \A c \in 0..(ncols - 1) : ax[r][c].writes = 1

\* the decoder applied to the unmodified latent code on its own
DecodedAlone == decoder(net, [k \in {0} |-> [i \in LATENT |-> (num_steps - 1) * z_n[i]]])[0]

\* C7: in a finished row the two images of coefficient 0 (last cell of the
\* negative range, first cell of the positive range) equal the decoder's
\* output on the unmodified latent code decoded on its own.
C7_ZeroDisplacement ==
    RowDone =>
        /\ ax[dir_d - 1][num_steps - 1].img = DecodedAlone
        /\ ax[dir_d - 1][num_steps + 1].img = DecodedAlone

\* C8: successive calls of find_jacobian on the same batch with the same
\* weights return identical tensors.
C8_Idempotent ==
    \A i, j \in 1..Len(returned) : returned[i] = returned[j]

\* a second call has returned, after a first one that left a non-zero result
C8_Witness ==
    /\ Len(returned) >= 2
    /\ returned[1] # ZeroJacobian
    /\ calls >= 2

\* C9 as stated: after find_jacobian returns, the batch has the values and
\* the gradient-tracking flag it had at the call, and the gradient buffer
\* is reset.
C9_InputUntouched ==
    JacobianReturned =>
        /\ x = fj_log.entry.x
        /\ x_requires_grad = fj_log.entry.requires_grad
        /\ (~x_grad.defined \/ IsZeroT(x_grad.val))

\* C9 amended: the values are unchanged and the gradient buffer is reset to
\* zeros, but the gradient-tracking flag is left set.
C9_ValuesKeptFlagSet ==
    JacobianReturned =>
        /\ x = fj_log.entry.x
        /\ x_requires_grad
        /\ x_grad.defined
        /\ IsZeroT(x_grad.val)

\* the first call has returned; the flag was clear when it was made
C9_Witness ==
    /\ JacobianReturned
    /\ calls = 1
    /\ ~fj_log.entry.requires_grad
    /\ returned[1] # ZeroJacobian

\* C10: every savefig writes the file of its sample,
\* <results dir of dataset and latent_dim>/sample_augmentations<n>_lam<lambda>.png,
\* after all num_directions rows of the grid are filled; the names are
\* pairwise distinct, and a complete run has written one file per sample.
C10_OneFilePerSample ==
    /\ \A i \in 1..Len(files) :
          /\ files[i].sample = i - 1
          /\ files[i].rows = num_directions
          /\ files[i].filled
          /\ files[i].name =
                << "../results/CAE_", dataset, "_" >> \o Digits(latent_dim) \o << "/" >>
                \o << "sample_augmentations" >> \o Digits(files[i].sample)
                \o << "_lam", Lambda, ".png" >>
    /\ \A i, j \in 1..Len(files) : i # j => files[i].name # files[j].name
    /\ Len(files) = n
    /\ pc = "done" => Len(files) = num_samples

\* the run is complete and the last file is that of sample num_samples - 1
C10_Witness ==
    /\ pc = "done"
    /\ Len(files) = num_samples
    /\ files[num_samples].sample = num_samples - 1

\* the file the naming convention prescribes is not in the results directory
CheckpointMissing ==
    ~ \E f \in disk : f.name = save_dir \o ConventionName(dataset, latent_dim, Lambda)

\* C11: when the checkpoint file CAE_<dataset>_Z<latent_dim>_Lambda<lambda>.pt
\* is missing, the run ends at the load step with a not-found error and takes
\* no further step: find_jacobian is never called, no Jacobian is returned,
\* no figure is created and no file is written.
C11_MissingCheckpointStops ==
    CheckpointMissing =>
        /\ pc \in {"load", "error"}
        /\ pc = "error" => raised = "FileNotFoundError" /\ ~ ENABLED Next
        /\ calls = 0
        /\ returned = << >>
        /\ figs = 0
        /\ files = << >>

\* the run has failed at the load step although another checkpoint file is
\* in the directory
C11_Witness ==
    /\ CheckpointMissing
    /\ disk # {}
    /\ pc = "error"
    /\ raised = "FileNotFoundError"

\* the checkpoint under the conventional name holds an encoder whose output
\* has another width than latent_dim
DimensionMismatch ==
    \E f \in disk :
        /\ f.name = save_dir \o ConventionName(dataset, latent_dim, Lambda)
        /\ OutDim(f.state) # latent_dim

\* the columns of the Jacobian that a backward pass of the call has written
ColumnsWritten == {fj_log.passes[i].dim : i \in 1..Len(fj_log.passes)}

\* C12: an encoder whose output width differs from latent_dim never reaches
\* the analysis: the run ends at the load step with a size-mismatch error.
\* So the encoder that find_jacobian runs has latent_dim outputs, every
\* returned Jacobian has exactly latent_dim columns, each written by a
\* backward pass, and reshape(-1, latent_dim) regroups nothing.
C12_FailsFastOnMismatch ==
    /\ DimensionMismatch =>
          /\ pc \in {"load", "error"}
          /\ pc = "error" => raised = "RuntimeError: size mismatch" /\ ~ ENABLED Next
          /\ calls = 0
          /\ returned = << >>
          /\ files = << >>
    /\ pc \notin {"load", "error"} => OutDim(net) = latent_dim
    /\ InFindJacobian => Width(z) = latent_dim
    /\ \A k \in 1..Len(returned) :
          \A i \in SAMPLES : \A p \in PIX : DOMAIN returned[k][i][p] = LATENT
    /\ JacobianReturned =>
          /\ ColumnsWritten = LATENT
          /\ \A i \in SAMPLES : Reshape(jacobian[i]) = jacobian[i]

\* the run has failed at the load step on a checkpoint whose encoder has more
\* outputs than latent_dim
C12_Witness ==
    /\ \E f \in disk : OutDim(f.state) > latent_dim
    /\ DimensionMismatch
    /\ pc = "error"
    /\ raised = "RuntimeError: size mismatch"

\* the gradient of sample i's own latent output z[i][dd] with respect to its
\* own pixels, on the batch xx
OwnGradient(xx, i, dd) == EncoderBackward(net, EncPre(net, xx), UnitTangent(i, dd))[i]

\* the slice that find_jacobian stores for sample i on the batch xx
JacobianSlice(xx, i) ==
    [p \in PIX |-> [dd \in LATENT |->
        EncoderBackward(net, EncPre(net, xx), [m \in SAMPLES |-> UnitTangent(m, dd)[m]])[i][p]]]

\* jacobian[n] holds no contribution from the latent outputs of the other
\* samples of the batch
C13_NoForeignContribution ==
    JacobianReturned =>
        \A i \in SAMPLES : \A p \in PIX : \A dd \in LATENT :
            jacobian[i][p][dd] = OwnGradient(x, i, dd)[p]

\* a batch that differs from x in other samples only gives sample i the
\* same slice
C13_OtherSamplesIrrelevant ==
    JacobianReturned =>
        \A q \in 1..NumSeeds : \A i \in SAMPLES :
            Batch(q)[i] = x[i] => JacobianSlice(Batch(q), i) = jacobian[i]

\* C13: the Jacobian slice stored for sample n depends on sample n only: it
\* holds no contribution from the latent outputs of another sample, and
\* changing another sample of the batch leaves it unchanged.
C13_SampleLocal ==
    /\ C13_NoForeignContribution
    /\ C13_OtherSamplesIrrelevant

\* what holds instead: the slice is the sum over all samples m of the
\* gradient of z[m][dd] with respect to the pixels of sample n
C13_BatchSumStored ==
    JacobianReturned =>
        \A i \in SAMPLES : jacobian[i] = JacobianSlice(x, i)

====
